---- MODULE Spec2Model ----
(***************************************************************************)
(* Publish hooks of the Maya pipeline configuration:                       *)
(*   hooks/tk-multi-publish2/maya/publish_object_geo.py                    *)
(*   hooks/tk-multi-publish2/maya/publish_shader.py                        *)
(*   hooks/tk-multi-publish2/maya/upload_version.py                        *)
(* The publisher framework collects an item, then calls accept, validate,  *)
(* publish and finalize of the plugin the item belongs to.  Each handler   *)
(* is one action; the calls it makes to Maya, to the logger, to its base   *)
(* class and to the tracking server are appended to `trace`, and the way   *)
(* it ends (return value or exception) is left in `outcome`.               *)
(* Strings whose characters the code inspects are sequences of one-letter  *)
(* strings.                                                                *)
(***************************************************************************)
EXTENDS Integers, Sequences, FiniteSets, TLC

VARIABLES
    plugin,        \* hook class the current publish task belongs to
    item,          \* the framework item: type and properties
    settings,      \* the settings handed to the plugin's methods
    context,       \* publisher.context: step name, entity type, task
    sessionPath,   \* cmds.file(query=True, sn=True)
    selection,     \* cmds.ls(selection=True)
    geometry,      \* cmds.ls(geometry=True, noIntermediate=True)
    abcExport,     \* mel.eval('exists "AbcExport"')
    sg,            \* tracking server: Task status, PublishedFiles, Versions, uploads
    stage,         \* position of the current task in the framework's lifecycle
    trace,         \* external calls made by the last handler call, in order
    outcome,       \* how the last handler call ended
    nItems,        \* items collected so far in this session
    ui,            \* the last get_ui_settings call: what the base class gave, what was returned
    membership     \* how pCubeShape1 belongs to its shading group: whole object or per face

vars == << plugin, item, settings, context, sessionPath, selection, geometry,
           abcExport, sg, stage, trace, outcome, nItems, ui, membership >>

----------------------------------------------------------------------------
(* Bounds *)

MaxItems == 2

----------------------------------------------------------------------------
(* Strings *)

None == "None"

\* a string property that is absent (or None)
NoStr == << "None" >>

\* str(value)
StrOf(v) == IF v = NoStr THEN << "N", "o", "n", "e" >> ELSE v

Str_s_MB    == << "s", ".", "M", "B" >>
Str_s_txt   == << "s", ".", "t", "x", "t" >>
Str_a_png   == << "a", ".", "p", "n", "g" >>
Str_a_txt   == << "a", ".", "t", "x", "t" >>
Str_o_abc   == << "p", "/", "o", ".", "a", "b", "c" >>

\* values of the "File Extensions" setting
Ext_png_ma  == << "p", "n", "g", ",", " ", "m", "a" >>
Ext_mov_mb  == << ".", "m", "o", "v", " ", ",", "m", "b" >>

Whitespace == { " " }

\* str.lower() of one character
LowerChar(c) ==
    CASE c = "A" -> "a" [] c = "B" -> "b" [] c = "G" -> "g" [] c = "M" -> "m"
      [] c = "N" -> "n" [] c = "P" -> "p" [] c = "T" -> "t" [] c = "X" -> "x"
      [] OTHER -> c

\* str.lower()
Lower(s) == [ i \in 1..Len(s) |-> LowerChar(s[i]) ]

\* positions of character c in s
Positions(s, c) == { i \in 1..Len(s) : s[i] = c }

Max(S) == CHOOSE x \in S : \A y \in S : y <= x
Min(S) == CHOOSE x \in S : \A y \in S : x <= y

\* str.split(sep): always at least one (possibly empty) piece
RECURSIVE Split(_, _)
Split(s, sep) ==
    IF Positions(s, sep) = {}
    THEN << s >>
    ELSE LET i == Min(Positions(s, sep))
         IN  << SubSeq(s, 1, i - 1) >> \o Split(SubSeq(s, i + 1, Len(s)), sep)

\* str.lstrip(chars)
RECURSIVE LStrip(_, _)
LStrip(s, chars) ==
    IF s # << >> /\ Head(s) \in chars THEN LStrip(Tail(s), chars) ELSE s

\* str.rstrip(chars)
RECURSIVE RStrip(_, _)
RStrip(s, chars) ==
    IF s # << >> /\ s[Len(s)] \in chars
    THEN RStrip(SubSeq(s, 1, Len(s) - 1), chars)
    ELSE s

\* str.strip()
Strip(s) == RStrip(LStrip(s, Whitespace), Whitespace)

\* os.path.basename
Basename(p) ==
    IF Positions(p, "/") = {} THEN p
    ELSE SubSeq(p, Max(Positions(p, "/")) + 1, Len(p))

\* s[:-n]
DropLast(s, n) == IF Len(s) <= n THEN << >> ELSE SubSeq(s, 1, Len(s) - n)

\* publisher.util.get_file_path_components(path)["extension"]: the part of the
\* file name after its last dot, without the dot; empty when there is none
FileExtension(p) ==
    LET name == Basename(p)
        dots == Positions(name, ".") \ { 1 }
    IN  IF dots = {} THEN << >> ELSE SubSeq(name, Max(dots) + 1, Len(name))

----------------------------------------------------------------------------
(* The values the framework, the scene and the server range over *)

GeoPlugin    == "MayaObjectGeometryPublishPlugin"
ShaderPlugin == "MayaObjectShaderPublishPlugin"
UploadPlugin == "UploadVersionPlugin"

\* MayaObjectGeometryPublishPlugin.item_filters
GeoItemFilters ==
    { "maya.session.object_geo", "maya.session.object_geo_group", "maya.session.geometries" }

\* MayaObjectShaderPublishPlugin.item_filters
ShaderItemFilters == { "maya.session.object_geo" }

\* UploadVersionPlugin.item_filters
UploadItemFilters ==
    { "file.image", "file.video", "maya.session.playblast", "maya.session.playblastSeq",
      "maya.session.render", "maya.session" }

\* names bound at module level in upload_version.py
UploadModuleNames == { "os", "glob", "pprint", "sgtk", "six", "mel", "cmds", "HookBaseClass",
                       "UploadVersionPlugin", "_session_path", "_get_save_as_action" }

\* names bound at module level in publish_object_geo.py
GeoModuleNames ==
    { "os", "cmds", "mel", "sgtk", "six", "QtCore", "QtGui", "HookBaseClass",
      "MayaObjectGeometryPublishPlugin", "_find_scene_animation_range", "_geo_has_animation",
      "_session_path", "_get_save_as_action", "_get_root_from_first_mesh", "_get_root_node",
      "_get_selected_mesh_shapes", "_get_shape_transform", "_expand_face_components",
      "_parse_face_indices", "_connected_shading_groups", "_members_for_sg",
      "_is_member_object_level_for_shape", "_collect_face_assignments_for_shape",
      "_assign_faces_to_sg", "_remove_object_level_membership",
      "_convert_object_level_materials_to_face_sets", "bake_facesets_for_selection" }

\* keys of UploadVersionPlugin.settings
UploadSettingsKeys == { "File Extensions", "Upload", "Link Local File" }

FileExtensionsValues == { Ext_png_ma, Ext_mov_mb }

SessionPaths == { << >>, Str_s_MB, Str_s_txt }
ItemPaths    == { Str_a_png, Str_a_txt }

StepNames   == { "MODEL_A", "SHADING_A", "ANIMATION" }
EntityTypes == { "Asset", "Shot" }
Tasks       == { None, "Task1" }
Contexts    ==
    { c \in [ step : StepNames, entity : EntityTypes, task : Tasks ] :
        \/ c.step = "MODEL_A"   /\ c.entity = "Asset" /\ c.task = "Task1"
        \/ c.step = "SHADING_A" /\ c.entity = "Shot"  /\ c.task = "Task1"
        \/ c.step = "SHADING_A" /\ c.entity = "Asset" /\ c.task = None
        \/ c.step = "ANIMATION" /\ c.entity = "Shot"  /\ c.task = None }

\* the scene: one transform pCube1 with (or without) its mesh shape, one other node
TheObject       == "pCube1"
TheShape        == "pCubeShape1"
TheShadingGroup == "lambert1SG"

\* a material assigned to the whole shape, or to its faces
ObjectLevel == "object-level"
PerFace     == "per-face"
Selections      == { {}, { "pSphere1" } }
Geometries      == { {}, { TheShape } }

\* templates are known by the keys they need (publish) or extract (work)
NoTemplate       == [ name |-> None, keys |-> {} ]
WorkTemplates    == { NoTemplate,
                      [ name |-> "work", keys |-> { "name" } ],
                      [ name |-> "work", keys |-> { "name", "version" } ] }
PublishTemplates == { NoTemplate,
                      [ name |-> "publish", keys |-> { "name", "version", "maya.object_name" } ] }

NoItem == [ type |-> None ]

\* items as the collector creates them
ObjectItems(types) ==
    [ type : types,
      collected_path : { NoStr },
      path : { NoStr },
      publish_path : { NoStr },
      publish_version : { None },
      publish_name : { NoStr },
      publish_type : { None },
      publish_template : { NoTemplate },
      object : { TheObject },
      object_name : { None, TheObject },
      work_template : WorkTemplates,
      sequence_paths : { FALSE },
      sg_publish_data : { None },
      sg_version_data : { None } ]

UploadItems ==
  { it \in
    [ type : UploadItemFilters,
      collected_path : ItemPaths,
      path : { NoStr },
      publish_path : { NoStr },
      publish_version : { None },
      publish_name : { NoStr },
      publish_type : { None },
      publish_template : { NoTemplate },
      object : { None },
      object_name : { None },
      work_template : { NoTemplate },
      sequence_paths : BOOLEAN,
      sg_publish_data : { None },
      sg_version_data : { None } ] :
    it.sequence_paths => it.type = "maya.session.render" }

ObjectSettings == { ("Publish Template" :> t) : t \in PublishTemplates }

UploadSettings ==
    { ("File Extensions" :> e) @@ ("Upload" :> u) @@ ("Link Local File" :> l) :
        e \in FileExtensionsValues, u \in BOOLEAN, l \in { TRUE } }

NoOutcome == [ kind |-> None, value |-> None ]

\* get_ui_settings not called yet
NoUi == [ base |-> << >>, returned |-> << >>, called |-> FALSE ]
Return(v) == [ kind |-> "return", value |-> v ]
Raise(e)  == [ kind |-> "raise", value |-> e ]

----------------------------------------------------------------------------------------------------------------------------------------
(* Initial states: a Maya session with the publisher open, nothing collected.
   The scene facts a plugin never reads stay as they start. *)

NoTask ==
    /\ plugin = None
    /\ item = NoItem
    /\ settings = << >>
    /\ sg = [ taskStatus |-> "ip", publishedFiles |-> 0, versions |-> 0, uploads |-> 0 ]
    /\ stage = "idle"
    /\ trace = << >>
    /\ outcome = NoOutcome
    /\ nItems = 0
    /\ ui = NoUi
    /\ membership = ObjectLevel

InitObject ==
    /\ NoTask
    /\ context \in Contexts
    /\ sessionPath \in SessionPaths
    /\ selection \in Selections
    /\ geometry \in Geometries
    /\ abcExport \in BOOLEAN

InitUpload ==
    /\ NoTask
    /\ context = [ step |-> "MODEL_A", entity |-> "Asset", task |-> "Task1" ]
    /\ sessionPath \in SessionPaths
    /\ selection = {}
    /\ geometry = { TheShape }
    /\ abcExport = TRUE

----------------------------------------------------------------------------
(* The framework collects an item for one of the plugins *)

TaskOver == stage \in { "idle", "rejected", "invalid", "failed", "finalized" }

NewTask(p, items, sets) ==
    /\ TaskOver
    /\ nItems < MaxItems
    /\ plugin' = p
    /\ item' \in items
    /\ settings' \in sets
    /\ stage' = "collected"
    /\ trace' = << >>
    /\ outcome' = NoOutcome
    /\ nItems' = nItems + 1
    /\ UNCHANGED << ui, membership, context, sessionPath, selection, geometry, abcExport, sg >>

CollectGeo    == NewTask(GeoPlugin, ObjectItems(GeoItemFilters), ObjectSettings)
CollectShader == NewTask(ShaderPlugin, ObjectItems(ShaderItemFilters), ObjectSettings)
CollectUpload == NewTask(UploadPlugin, UploadItems, UploadSettings)

----------------
(* The artist works in Maya while the publisher is open *)

\* File > Save Scene As (the callback offered by _get_save_as_action)
SaveScene ==
    /\ \E p \in SessionPaths \ { << >> } : sessionPath' = p
    /\ sessionPath' # sessionPath
    /\ UNCHANGED << ui, membership, plugin, item, settings, context, selection, geometry, abcExport,
                    sg, stage, trace, outcome, nItems >>

\* the AbcExport plug-in is loaded or unloaded in the plug-in manager
ToggleAbcExport ==
    /\ abcExport' = ~abcExport
    /\ UNCHANGED << ui, membership, plugin, item, settings, context, sessionPath, selection, geometry,
                    sg, stage, trace, outcome, nItems >>

\* the artist creates or deletes the mesh of pCube1
EditGeometry ==
    /\ \E g \in Geometries : geometry' = g
    /\ geometry' # geometry
    /\ UNCHANGED << ui, membership, plugin, item, settings, context, sessionPath, selection, abcExport,
                    sg, stage, trace, outcome, nItems >>

\* the artist picks something else in the viewport
ChangeSelection ==
    /\ \E s \in Selections : selection' = s
    /\ selection' # selection
    /\ UNCHANGED << ui, membership, plugin, item, settings, context, sessionPath, geometry, abcExport,
                    sg, stage, trace, outcome, nItems >>

----------------------------------------------------------------------------
(* Maya commands the hooks call *)

\* _session_path(): cmds.file(query=True, sn=True), "" for a scene never saved
SessionPathOf(p) == p

\* cmds.select(nodes): the nodes become the selection.  What Maya does with an
\* empty list is not fixed by the hooks: it either clears the selection or
\* leaves it alone (emptyClears).
Select(sel, nodes, emptyClears) ==
    IF nodes # {} THEN nodes ELSE IF emptyClears THEN {} ELSE sel

\* mesh shapes below the selected nodes (_get_selected_mesh_shapes)
SelectedMeshShapes(sel, geo) == IF TheObject \in sel THEN geo \cap { TheShape } ELSE {}

\* _get_shading_groups_from_object(obj)
ShadingGroupsFromObject(obj, geo) ==
    IF obj = TheObject /\ TheShape \in geo THEN { TheShadingGroup } ELSE {}

----------------------------------------------------------------------------
(* UploadVersionPlugin *)

\* the "File Extensions" setting as accept parses it
ValidExtensions(value) ==
    LET pieces == Split(value, ",")
    IN  [ i \in 1..Len(pieces) |-> LStrip(Strip(pieces[i]), { "." }) ]

SeqRange(q) == { q[i] : i \in 1..Len(q) }

\* the path whose extension accept tests
AcceptPath(it, session) == SessionPathOf(session)

\* UploadVersionPlugin.accept
UploadAcceptRun(set, it, session) ==
    LET path      == AcceptPath(it, session)
        extension == Lower(FileExtension(path))
        valid     == ValidExtensions(set["File Extensions"])
        ok        == extension \in SeqRange(valid) \/ it.type = "maya.session"
    IN  [ item |-> [ it EXCEPT !.path = SessionPathOf(session) ],
          tr   |-> << "logger.debug", IF ok THEN "logger.info" ELSE "logger.debug" >>,
          out  |-> Return([ accepted |-> ok ]) ]

\* UploadVersionPlugin.validate
UploadValidateRun(set, it) == [ item |-> it, tr |-> << >>, out |-> Return(TRUE) ]

\* self.get_dailies_template: settings["Dailies Template"]
GetDailiesTemplate(set) ==
    IF "Dailies Template" \in DOMAIN set
    THEN Return(set["Dailies Template"])
    ELSE Raise("KeyError")

\* self.get_dailies_path: no path on it returns a value
GetDailiesPath(set, it, workTemplate, pathValid) ==
    LET dailies == GetDailiesTemplate(set)
    IN  IF dailies.kind = "raise" THEN dailies
        ELSE IF workTemplate # NoTemplate /\ dailies.value # NoTemplate /\ pathValid
                  /\ "platform" \notin UploadModuleNames
        THEN Raise("NameError")
        ELSE Return(NoStr)

\* which branch of publish prepares the movie
MovieBranch(it) ==
    IF it.sequence_paths /\ it.type = "maya.session.render" THEN "render"
    ELSE IF it.type = "maya.session" THEN "session"
    ELSE "file"

\* variant: first and last assigned as strings on every branch
FrameLocals_Strings(branch) == [ first |-> "str", last |-> "str" ]

\* the locals `first` and `last` when version_data is built
FrameLocals(branch) ==
    CASE branch = "render"  -> [ first |-> "str",     last |-> "unbound" ]
      [] branch = "session" -> [ first |-> "number",  last |-> "number" ]
      [] OTHER              -> [ first |-> "unbound", last |-> "unbound" ]

\* the exception building version_data ends in, None when there is none:
\* int(first), int(last), first + "-" + last
VersionDataError(fl) ==
    IF fl.first = "unbound" \/ fl.last = "unbound" THEN "UnboundLocalError"
    ELSE IF fl.first = "number" \/ fl.last = "number" THEN "TypeError"
    ELSE None

\* the transcoding branch of publish (item with sequence_paths of a render)
RenderMovie(set, it, x) ==
    LET dp == GetDailiesPath(set, it, x.parentWorkTemplate, x.pathValid)
    IN  IF dp.kind = "raise" THEN [ tr |-> << >>, out |-> dp ]
        ELSE IF dp.value = NoStr
        THEN [ tr |-> << >>, out |-> Raise("AttributeError") ]
        ELSE IF "subprocess" \notin UploadModuleNames
        THEN [ tr |-> << "logger.info", "logger.info" >>, out |-> Raise("NameError") ]
        ELSE IF x.ffmpegLines > 0 /\ "sys" \notin UploadModuleNames
        THEN [ tr  |-> << "logger.info", "logger.info", "subprocess.Popen", "proc.wait" >>,
               out |-> Raise("NameError") ]
        ELSE [ tr  |-> << "logger.info", "logger.info", "subprocess.Popen" >>
                       \o [ i \in 1..x.ffmpegLines |-> "logger.info" ]
                       \o << "proc.wait" >>,
               out |-> NoOutcome ]

\* the playblast branch of publish (maya.session item)
SessionMovie(set, it, x) ==
    LET dp == GetDailiesPath(set, it, x.parentWorkTemplate, x.pathValid)
    IN  IF dp.kind = "raise" THEN [ tr |-> << >>, out |-> dp ]
        ELSE IF ~x.rootNodes
        THEN [ tr |-> << "logger.error" >>, out |-> Raise("Exception") ]
        ELSE [ tr |-> << "cmds.playblast" >>, out |-> NoOutcome ]

\* UploadVersionPlugin.publish
UploadPublishRun(set, it, srv, x) ==
    LET branch == MovieBranch(it)
        movie  == CASE branch = "render"  -> RenderMovie(set, it, x)
                    [] branch = "session" -> SessionMovie(set, it, x)
                    [] OTHER              -> [ tr |-> << >>, out |-> NoOutcome ]
        err    == VersionDataError(FrameLocals(branch))
        tr1    == movie.tr
                  \o ( IF it.publish_name = NoStr THEN << "logger.debug" >> ELSE << >> )
                  \o << "logger.debug", "logger.info" >>
        tr2    == tr1 \o << "logger.debug", "shotgun.create" >>
        made   == [ srv EXCEPT !.versions = @ + 1 ]
        it2    == [ it EXCEPT !.sg_version_data = "Version" ]
        tr3    == tr2 \o << "logger.info", "logger.info", "shotgun.upload" >>
    IN  IF movie.out.kind = "raise"
        THEN [ item |-> it, sg |-> srv, tr |-> movie.tr, out |-> movie.out ]
        ELSE IF err # None
        THEN [ item |-> it, sg |-> srv, tr |-> tr1, out |-> Raise(err) ]
        ELSE IF ~x.createOk
        THEN [ item |-> it, sg |-> srv, tr |-> tr2, out |-> Raise("Fault") ]
        ELSE IF ~x.uploadOk
        THEN [ item |-> it2, sg |-> made, tr |-> tr3, out |-> Raise("Fault") ]
        ELSE [ item |-> it2, sg |-> [ made EXCEPT !.uploads = @ + 1 ],
               tr |-> tr3 \o << "logger.info" >>, out |-> Return(None) ]

\* UploadVersionPlugin.finalize
UploadFinalizeRun(it) ==
    IF it.sg_version_data = None
    THEN [ tr |-> << >>, out |-> Raise("KeyError") ]
    ELSE [ tr |-> << "logger.info" >>, out |-> Return(None) ]

----------------------------------------------------------------------------
(* MayaObjectGeometryPublishPlugin and MayaObjectShaderPublishPlugin *)

\* Python's truth value of a string
Truthy(str) == str # ""

\* `needle in stepName` for the step names of StepNames
StepContains(stepName, needle) ==
    \/ needle = "TEXTURE" /\ stepName \in { "TEXTURE_A" }
    \/ needle = "SHADING" /\ stepName \in { "SHADING_A" }

\* the check box state MayaObjectGeometryPublishPlugin.accept computes
GeoChecked(type, step, animated) ==
    IF step \in { "MODEL", "TEXTURE_A", "CLAY_A", "FOTOGRAMETRY_A", "GROOM_A", "MODEL_A", "SCAN_A" }
    THEN TRUE
    ELSE IF step \in { "TRACK_3D", "LAYOUT", "ANIMATION", "CLOTH", "CROWD", "ANIMATION_A",
                       "CHARACTER_FX_A", "CLOTH_A", "LAYOUT_A", "MODEL_A", "SCAN_A" }
    THEN IF ~animated /\ step \in { "ANIMATION", "ANIMATION_A" }
         THEN FALSE
         ELSE type # "maya.session.geometries"
    ELSE FALSE

\* MayaObjectGeometryPublishPlugin.accept
GeoAcceptRun(set, it, ctx, sel, abc, x) ==
    LET tpl  == set["Publish Template"]
        acc  == it.work_template # NoTemplate /\ tpl # NoTemplate /\ abc
        sel1 == IF it.type # "maya.session.geometries"
                THEN Select(Select(sel, { it.object }, x.emptyClears), sel, x.emptyClears)
                ELSE sel
        asset == it.type = "maya.session.geometries" /\ ctx.entity = "Asset"
    IN  [ item |-> [ it EXCEPT !.publish_template = tpl ],
          sel  |-> sel1,
          tr   |-> ( IF it.work_template = NoTemplate THEN << "logger.debug" >> ELSE << >> )
                   \o ( IF tpl = NoTemplate THEN << "logger.debug" >> ELSE << >> )
                   \o ( IF ~abc THEN << "logger.debug" >> ELSE << >> ),
          out  |-> Return([ accepted |-> acc /\ ~asset,
                            checked  |-> GeoChecked(it.type, ctx.step, x.animated) /\ ~asset ]) ]

\* the check boxes of the settings widget
UiKeys == { "Write Face Sets", "Write Uvs", "Write Uv Sets", "Write Color Sets" }

\* what the base class's get_ui_settings may return: nothing, or the state of
\* some or all of the check boxes
BaseUiSettings ==
    { << >>,
      [ k \in UiKeys |-> FALSE ],
      [ k \in { "Write Face Sets", "Write Uvs" } |-> k = "Write Uvs" ] }

\* step_name = ""; if context.step: step_name = context.step.get("name", "")
StepName(ctx) == IF ctx.step = None THEN "" ELSE ctx.step

\* the guard of the check-box customisation: 'TEXTURE' or 'SHADING' in step_name
UiCondition(stepName) == Truthy("TEXTURE") \/ StepContains(stepName, "SHADING")

\* d[k] = v for every k of keys
SetItems(d, keys, v) == [ k \in DOMAIN d \cup keys |-> IF k \in keys THEN v ELSE d[k] ]

\* MayaObjectGeometryPublishPlugin.get_ui_settings
GetUiSettingsRun(base, ctx) ==
    IF UiCondition(StepName(ctx)) THEN SetItems(base, UiKeys, TRUE) ELSE base

\* MayaObjectShaderPublishPlugin.accept
ShaderAcceptRun(set, it, ctx, geo) ==
    LET tpl == set["Publish Template"]
        acc == /\ it.work_template # NoTemplate
               /\ tpl # NoTemplate
               /\ ShadingGroupsFromObject(it.object, geo) # {}
    IN  [ item |-> [ it EXCEPT !.publish_template = tpl ],
          tr   |-> ( IF it.work_template = NoTemplate THEN << "logger.debug" >> ELSE << >> )
                   \o ( IF tpl = NoTemplate THEN << "logger.debug" >> ELSE << >> ),
          out  |-> IF ctx.step \in { "SHADING_A", "TEXTURE_A" }
                   THEN Return([ accepted |-> acc, checked |-> TRUE ])
                   ELSE Return([ accepted |-> FALSE, checked |-> FALSE ]) ]

\* variant: the missing keys go unnoticed
MissingKeys_None(keys, fields) == {}

\* publish_template.missing_keys(work_fields): the template's keys that have
\* no value in the fields
MissingKeys(keys, fields) == keys \ fields

\* publish_template.apply_fields(work_fields)
ApplyFields(tpl, fields) == Str_o_abc

\* validate of both hooks (the two methods are the same text)
ObjectValidateRun(it, session, geo, x) ==
    LET path   == SessionPathOf(session)
        fields == it.work_template.keys
                  \cup ( IF it.object_name # None THEN { "maya.object_name" } ELSE {} )
        name   == DropLast(Basename(StrOf(it.path)), 9)
        it1    == [ it EXCEPT !.publish_name = name ]
        it2    == [ it1 EXCEPT !.path = ApplyFields(it.publish_template, fields),
                               !.publish_path = ApplyFields(it.publish_template, fields),
                               !.publish_version =
                                   IF "version" \in fields THEN "version" ELSE it.publish_version ]
    IN  IF path = << >>
        THEN [ item |-> it, tr |-> << "logger.error" >>, out |-> Raise("Exception") ]
        ELSE IF geo = {}
        THEN [ item |-> it, tr |-> << "logger.error" >>, out |-> Raise("Exception") ]
        ELSE IF it.work_template = NoTemplate
        THEN [ item |-> it, tr |-> << >>, out |-> Raise("AttributeError") ]
        ELSE IF ~x.pathValid
        THEN [ item |-> it, tr |-> << >>, out |-> Raise("TankError") ]
        ELSE IF it.publish_template = NoTemplate
        THEN [ item |-> it1, tr |-> << >>, out |-> Raise("AttributeError") ]
        ELSE IF MissingKeys(it.publish_template.keys, fields) # {}
        THEN [ item |-> it1, tr |-> << "logger.error" >>, out |-> Raise("Exception") ]
        ELSE IF it.object_name = None
        THEN [ item |-> it1, tr |-> << >>, out |-> Raise("KeyError") ]
        ELSE IF x.baseValidate = "raise"
        THEN [ item |-> it2, tr |-> << "super.validate" >>, out |-> Raise("Exception") ]
        ELSE [ item |-> it2, tr |-> << "super.validate" >>,
               out |-> Return(x.baseValidate = "True") ]

----------------------------------------------------------------------------
(* publish of the two object hooks, statement by statement.  st is the state
   the method has reached: item, selection, server, shading-group membership,
   trace and, once the method has ended, its outcome; x holds the selection at entry (cur), the context,
   the scene's geometry, whether AbcExport exists, and the answers of Maya, the
   base class and the server.  The export event stands for the export command
   having completed; the arguments of the command are not modelled. *)

Running == [ kind |-> "running", value |-> None ]

Log(st, event) == [ st EXCEPT !.tr = Append(@, event) ]
End(st, out)   == [ st EXCEPT !.out = out ]

\* the guard of the face-set baking: 'TEXTURE' or 'SHADING' in step name
BakeCondition(stepName) == Truthy("TEXTURE") \/ StepContains(stepName, "SHADING")

\* _convert_object_level_materials_to_face_sets(shape): the faces not yet
\* assigned go to the object-level shading group and the object-level link is
\* removed; a shape without object-level assignment is left as it is
ConvertObjectLevelMaterialsToFaceSets(mem) == IF mem = ObjectLevel THEN PerFace ELSE mem

\* bake_facesets_for_selection: nothing to do without mesh shapes, otherwise
\* one call of convert_object_level_materials_to_face_sets per shape; out is
\* how the call ends, mem the membership it leaves
BakeFacesets(sel, geo, mem) ==
    LET shapes == SelectedMeshShapes(sel, geo)
    IN  IF shapes = {} THEN [ out |-> Return({}), mem |-> mem ]
        ELSE IF "convert_object_level_materials_to_face_sets" \notin GeoModuleNames
        THEN [ out |-> Raise("NameError"), mem |-> mem ]
        ELSE [ out |-> Return(shapes), mem |-> ConvertObjectLevelMaterialsToFaceSets(mem) ]

\* geometry hook: publish type, selection of the object, baking, -root argument
PrepareAlembic(st, x) ==
    IF st.item.type = "maya.session.geometries"
    THEN [ st EXCEPT !.item.publish_type = "Session Alembic Cache" ]
    ELSE LET st1 == Log([ st EXCEPT !.item.publish_type = "Alembic Cache",
                                    !.sel = Select(st.sel, { st.item.object }, x.emptyClears) ],
                        "cmds.select")
             bake == BakeFacesets(st1.sel, x.geo, st1.mem)
             st2 == Log([ st1 EXCEPT !.mem = bake.mem ], "bake_facesets_for_selection")
         IN  IF ~BakeCondition(x.ctx.step) THEN st1
             ELSE IF bake.out.kind = "raise" THEN End(st2, bake.out)
             ELSE st2

\* shader hook: publish type and selection of the object's shading groups
SelectShadingGroups(st, x) ==
    Log([ st EXCEPT !.item.publish_type = "Maya Shading Network",
                    !.sel = Select(st.sel, ShadingGroupsFromObject(st.item.object, x.geo),
                                   x.emptyClears) ],
        "cmds.select")

\* variant: the except clause logs and falls through
OnExportError_Fallthrough == "fallthrough"

\* what the except clause around the export command does after logging
OnExportError == "return"

\* try: <export command> except Exception: self.logger.error(...); return
Export(st, ok) ==
    IF ok THEN Log(st, "export")
    ELSE IF OnExportError = "return"
    THEN End(Log(Log(st, "export failed"), "logger.error"), Return(None))
    ELSE Log(Log(st, "export failed"), "logger.error")

\* super().publish(settings, item): the base class registers the PublishedFile
SuperPublish(st, x) ==
    IF x.baseOk
    THEN Log([ st EXCEPT !.sg.publishedFiles = @ + 1,
                         !.item.sg_publish_data = "PublishedFile" ], "super.publish")
    ELSE End(Log(st, "super.publish"), Raise("Exception"))

\* cmds.select(cur_selection)
RestoreSelection(st, x) ==
    Log([ st EXCEPT !.sel = Select(st.sel, x.cur, x.emptyClears) ], "cmds.select(cur_selection)")

\* shotgun.update("Task", item.context.task['id'], {"sg_status_list": "rev"})
UpdateTask(st, x) ==
    IF x.ctx.task = None THEN End(st, Raise("TypeError"))
    ELSE IF ~x.updateOk THEN End(Log(st, "shotgun.update"), Raise("Fault"))
    ELSE Log([ st EXCEPT !.sg.taskStatus = "rev" ], "shotgun.update")

Exec(stmt, st, x) ==
    CASE stmt = "ensure_folder_exists"  -> Log(st, "ensure_folder_exists")
      [] stmt = "prepare_alembic"       -> PrepareAlembic(st, x)
      [] stmt = "select_shading_groups" -> SelectShadingGroups(st, x)
      [] stmt = "AbcExport"             -> Export(st, x.abc /\ x.exportOk)
      [] stmt = "exportSelected"        -> Export(st, x.exportOk)
      [] stmt = "super.publish"         -> SuperPublish(st, x)
      [] stmt = "restore_selection"     -> RestoreSelection(st, x)
      [] stmt = "shotgun.update"        -> UpdateTask(st, x)

\* runs the statements in order until one ends the method
RECURSIVE RunBody(_, _, _)
RunBody(body, st, x) ==
    IF st.out # Running THEN st
    ELSE IF body = << >> THEN End(st, Return(None))
    ELSE RunBody(Tail(body), Exec(Head(body), st, x), x)

\* variant: the Task is updated before the file is handed to the base class
GeoPublishBody_UpdateFirst ==
    << "ensure_folder_exists", "prepare_alembic", "AbcExport",
       "shotgun.update", "super.publish", "restore_selection" >>

\* MayaObjectGeometryPublishPlugin.publish
GeoPublishBody ==
    << "ensure_folder_exists", "prepare_alembic", "AbcExport",
       "super.publish", "restore_selection", "shotgun.update" >>

\* MayaObjectShaderPublishPlugin.publish
ShaderPublishBody ==
    << "ensure_folder_exists", "select_shading_groups", "exportSelected",
       "super.publish", "restore_selection", "shotgun.update" >>

PublishInputs(sel, ctx, geo, abc) ==
    [ cur : { sel }, ctx : { ctx }, geo : { geo }, abc : { abc },
      exportOk : BOOLEAN, baseOk : BOOLEAN, updateOk : BOOLEAN, emptyClears : BOOLEAN ]

----------------------------------------------------------------------------
(* The framework calls the handlers *)

AcceptStage(out) ==
    IF out.kind = "return" /\ out.value.accepted THEN "accepted" ELSE "rejected"

GeoAccept ==
    /\ stage = "collected" /\ plugin = GeoPlugin
    /\ \E x \in [ emptyClears : BOOLEAN, animated : BOOLEAN ] :
         LET r == GeoAcceptRun(settings, item, context, selection, abcExport, x)
         IN  /\ item' = r.item
             /\ selection' = r.sel
             /\ trace' = r.tr
             /\ outcome' = r.out
             /\ stage' = AcceptStage(r.out)
    /\ UNCHANGED << ui, membership, plugin, settings, context, sessionPath, geometry, abcExport, sg, nItems >>

ShaderAccept ==
    /\ stage = "collected" /\ plugin = ShaderPlugin
    /\ LET r == ShaderAcceptRun(settings, item, context, geometry)
       IN  /\ item' = r.item
           /\ trace' = r.tr
           /\ outcome' = r.out
           /\ stage' = AcceptStage(r.out)
    /\ UNCHANGED << ui, membership, plugin, settings, context, sessionPath, selection, geometry, abcExport,
                    sg, nItems >>

UploadAccept ==
    /\ stage = "collected" /\ plugin = UploadPlugin
    /\ LET r == UploadAcceptRun(settings, item, sessionPath)
       IN  /\ item' = r.item
           /\ trace' = r.tr
           /\ outcome' = r.out
           /\ stage' = AcceptStage(r.out)
    /\ UNCHANGED << ui, membership, plugin, settings, context, sessionPath, selection, geometry, abcExport,
                    sg, nItems >>

\* the settings widget of an accepted geometry task is read back
GetUiSettings ==
    /\ stage = "accepted" /\ plugin = GeoPlugin
    /\ \E b \in BaseUiSettings :
         ui' = [ base |-> b, returned |-> GetUiSettingsRun(b, context), called |-> TRUE ]
    /\ UNCHANGED << plugin, item, settings, context, sessionPath, selection, geometry,
                    abcExport, sg, stage, trace, outcome, nItems, membership >>

ValidateStage(out) ==
    IF out.kind = "return" /\ out.value = TRUE THEN "validated" ELSE "invalid"

ValidateInputs == [ pathValid : BOOLEAN, baseValidate : { "True", "False", "raise" } ]

\* MayaObjectGeometryPublishPlugin.validate
GeoValidate ==
    /\ stage = "accepted" /\ plugin = GeoPlugin
    /\ \E x \in ValidateInputs :
         LET r == ObjectValidateRun(item, sessionPath, geometry, x)
         IN  /\ item' = r.item
             /\ trace' = r.tr
             /\ outcome' = r.out
             /\ stage' = ValidateStage(r.out)
    /\ UNCHANGED << ui, membership, plugin, settings, context, sessionPath, selection, geometry, abcExport,
                    sg, nItems >>

\* MayaObjectShaderPublishPlugin.validate
ShaderValidate ==
    /\ stage = "accepted" /\ plugin = ShaderPlugin
    /\ \E x \in ValidateInputs :
         LET r == ObjectValidateRun(item, sessionPath, geometry, x)
         IN  /\ item' = r.item
             /\ trace' = r.tr
             /\ outcome' = r.out
             /\ stage' = ValidateStage(r.out)
    /\ UNCHANGED << ui, membership, plugin, settings, context, sessionPath, selection, geometry, abcExport,
                    sg, nItems >>

UploadValidate ==
    /\ stage = "accepted" /\ plugin = UploadPlugin
    /\ LET r == UploadValidateRun(settings, item)
       IN  /\ item' = r.item
           /\ trace' = r.tr
           /\ outcome' = r.out
           /\ stage' = ValidateStage(r.out)
    /\ UNCHANGED << ui, membership, plugin, settings, context, sessionPath, selection, geometry, abcExport,
                    sg, nItems >>

PublishStage(out) == IF out.kind = "return" THEN "published" ELSE "failed"

ObjectPublish(body) ==
    \E x \in PublishInputs(selection, context, geometry, abcExport) :
        LET r == RunBody(body,
                         [ item |-> item, sel |-> selection, sg |-> sg, mem |-> membership,
                           tr |-> << >>, out |-> Running ], x)
        IN  /\ item' = r.item
            /\ selection' = r.sel
            /\ sg' = r.sg
            /\ membership' = r.mem
            /\ trace' = r.tr
            /\ outcome' = r.out
            /\ stage' = PublishStage(r.out)

GeoPublish ==
    /\ stage = "validated" /\ plugin = GeoPlugin
    /\ ObjectPublish(GeoPublishBody)
    /\ UNCHANGED << ui, plugin, settings, context, sessionPath, geometry, abcExport, nItems >>

ShaderPublish ==
    /\ stage = "validated" /\ plugin = ShaderPlugin
    /\ ObjectPublish(ShaderPublishBody)
    /\ UNCHANGED << ui, plugin, settings, context, sessionPath, geometry, abcExport, nItems >>

MaxFfmpegLines == 1

UploadInputs ==
    [ parentWorkTemplate : { NoTemplate, [ name |-> "work", keys |-> { "name" } ] }, pathValid : BOOLEAN, rootNodes : BOOLEAN,
      ffmpegLines : 0..MaxFfmpegLines, createOk : BOOLEAN, uploadOk : BOOLEAN ]

UploadPublish ==
    /\ stage = "validated" /\ plugin = UploadPlugin
    /\ \E x \in UploadInputs :
         LET r == UploadPublishRun(settings, item, sg, x)
         IN  /\ item' = r.item
             /\ sg' = r.sg
             /\ trace' = r.tr
             /\ outcome' = r.out
             /\ stage' = PublishStage(r.out)
    /\ UNCHANGED << ui, membership, plugin, settings, context, sessionPath, selection, geometry, abcExport,
                    nItems >>

\* the finalize pass: UploadVersionPlugin.finalize, or the base class's finalize
\* for the object hooks, which define none
Finalize ==
    /\ stage = "published"
    /\ LET r == IF plugin = UploadPlugin THEN UploadFinalizeRun(item)
                ELSE [ tr |-> << "super.finalize" >>, out |-> Return(None) ]
       IN  /\ trace' = r.tr
           /\ outcome' = r.out
    /\ stage' = "finalized"
    /\ UNCHANGED << ui, membership, plugin, item, settings, context, sessionPath, selection, geometry,
                    abcExport, sg, nItems >>

\* sessions that publish objects (geometry and shader hooks)
NextObject ==
    \/ CollectGeo
    \/ CollectShader
    \/ SaveScene
    \/ ToggleAbcExport
    \/ EditGeometry
    \/ ChangeSelection
    \/ GeoAccept
    \/ ShaderAccept
    \/ GeoValidate
    \/ ShaderValidate
    \/ GeoPublish
    \/ ShaderPublish
    \/ Finalize

SpecObject == InitObject /\ [][NextObject]_vars

\* sessions that upload versions for review
NextUpload ==
    \/ CollectUpload
    \/ SaveScene
    \/ UploadAccept
    \/ UploadValidate
    \/ UploadPublish

SpecUpload == InitUpload /\ [][NextUpload]_vars

\* the publisher dialog with the geometry hook's settings widget
NextUi ==
    \/ CollectGeo
    \/ GeoAccept
    \/ GetUiSettings

SpecUi == InitObject /\ [][NextUi]_vars

----------------------------------------------------------------------------
(* Properties *)

ObjectPlugins == { GeoPlugin, ShaderPlugin }

\* the last handler that ran was publish of an object hook / of the upload hook
AfterObjectPublish == plugin \in ObjectPlugins /\ stage \in { "published", "failed" }
AfterUploadPublish == plugin = UploadPlugin /\ stage \in { "published", "failed" }

\* this step is the call of validate / publish of an object hook
ObjectValidateStep == plugin \in ObjectPlugins /\ stage = "accepted" /\ stage' # "accepted"
ObjectPublishStep  == plugin \in ObjectPlugins /\ stage = "validated" /\ stage' # "validated"

Occurrences(tr, e) == Cardinality({ i \in 1..Len(tr) : tr[i] = e })
Called(tr, e)      == e \in SeqRange(tr)

IsMilestone(e) ==
    e \in { "export", "export failed", "super.publish", "cmds.select(cur_selection)",
            "shotgun.update" }

\* C1: in publish of the geometry and shader hooks the Task status is updated
\* at most once per call, and only as the last of: export command completed
\* without error, base-class publish, selection restore, Task update; the
\* server never shows the Task in 'rev' without a registered publish.
C1_StatusUpdateLast ==
    /\ AfterObjectPublish =>
         /\ Occurrences(trace, "shotgun.update") <= 1
         /\ Called(trace, "shotgun.update") =>
              SelectSeq(trace, IsMilestone)
                = << "export", "super.publish", "cmds.select(cur_selection)", "shotgun.update" >>
    /\ sg.taskStatus = "rev" => sg.publishedFiles > 0

C1_Witness ==
    /\ AfterObjectPublish /\ plugin = GeoPlugin
    /\ Called(trace, "shotgun.update")
    /\ sg.taskStatus = "rev"

\* C2 (as claimed): every error a hook detects and logs ends the method with
\* an exception; no handler that logged an error returns normally.
C2_LoggedErrorRaises ==
    Called(trace, "logger.error") => outcome.kind = "raise"

\* C3: when the export command raises in publish of an object hook, that call
\* does not invoke the base-class publish, registers no published file and
\* does not update the Task.
C3_FailedExportStops ==
    [][ ObjectPublishStep /\ Called(trace', "export failed") =>
          /\ ~Called(trace', "super.publish")
          /\ ~Called(trace', "shotgun.update")
          /\ sg' = sg
          /\ item'.sg_publish_data = item.sg_publish_data ]_vars

C3_Witness == AfterObjectPublish /\ Called(trace, "export failed")

\* the three cases of C4
NeverSaved       == sessionPath = << >>
NoSceneGeometry  == geometry = {}
TemplateKeysLack ==
    ~(item.publish_template.keys \subseteq item.work_template.keys \cup { "maya.object_name" })

\* C4: validate of an object hook raises, writes nothing to the server and
\* leaves the item's path, publish_path and publish_version as they were when
\* the scene was never saved, holds no geometry, or the work fields plus
\* maya.object_name do not cover the publish template's keys.
C4_ValidateRejects ==
    [][ ObjectValidateStep /\ (NeverSaved \/ NoSceneGeometry \/ TemplateKeysLack) =>
          /\ outcome'.kind = "raise"
          /\ sg' = sg
          /\ ~Called(trace', "shotgun.update")
          /\ item'.path = item.path
          /\ item'.publish_path = item.publish_path
          /\ item'.publish_version = item.publish_version ]_vars

C4_Witness ==
    /\ plugin \in ObjectPlugins /\ stage = "invalid"
    /\ ~NeverSaved /\ ~NoSceneGeometry /\ TemplateKeysLack
    /\ item.work_template # NoTemplate
    /\ Called(trace, "logger.error")
    /\ outcome.kind = "raise"

\* C5 (as claimed): a publish of the upload hook in which no server call fails
\* creates exactly one Version and then uploads the movie to it.
C5_CreatesThenUploads ==
    AfterUploadPublish /\ outcome # Raise("Fault") =>
        /\ Occurrences(trace, "shotgun.create") = 1
        /\ Occurrences(trace, "shotgun.upload") = 1
        /\ SelectSeq(trace, LAMBDA e : e \in { "shotgun.create", "shotgun.upload" })
             = << "shotgun.create", "shotgun.upload" >>

\* C6 (as claimed): for a render item with sequence_paths publish starts the
\* transcoder exactly once and waits for it before the Version is created,
\* whatever its exit code.
C6_TranscodesOnce ==
    AfterUploadPublish /\ item.type = "maya.session.render" /\ item.sequence_paths =>
        /\ Occurrences(trace, "subprocess.Popen") = 1
        /\ Occurrences(trace, "proc.wait") = 1
        /\ outcome.kind = "return"

\* C7 (as claimed): validate of the geometry hook does not succeed while the
\* AbcExport command is unavailable.
C7_ValidateNeedsAbcExport ==
    [][ plugin = GeoPlugin /\ stage = "accepted" /\ ~abcExport => stage' # "validated" ]_vars

C9_AcceptsByItemExtension ==
    plugin = UploadPlugin /\ stage \in { "accepted", "rejected" } =>
        ( outcome.value.accepted <=>
            \/ Lower(FileExtension(item.collected_path))
                 \in SeqRange(ValidExtensions(settings["File Extensions"]))
            \/ item.type = "maya.session" )

\* C10 (as claimed): whenever publish of an object hook returns, the selection
\* is the one it found at entry.
C10_SelectionRestored ==
    [][ ObjectPublishStep /\ outcome'.kind = "return" => selection' = selection ]_vars

\* the step name holds one of the words the customisation is meant for
StepIsTextureOrShading(stepName) ==
    StepContains(stepName, "TEXTURE") \/ StepContains(stepName, "SHADING")

\* C12 (as claimed): get_ui_settings returns the four check boxes as True when
\* the step name contains 'TEXTURE' or 'SHADING', and returns the base class's
\* values unchanged for every other step name.
C12_UiSettingsByStep ==
    ui.called =>
        IF StepIsTextureOrShading(StepName(context))
        THEN \A k \in UiKeys : k \in DOMAIN ui.returned /\ ui.returned[k]
        ELSE ui.returned = ui.base

\* this step is the call of publish of the geometry hook
GeoPublishStep == plugin = GeoPlugin /\ stage = "validated" /\ stage' # "validated"

\* C13 (as claimed): publish of the geometry hook calls
\* bake_facesets_for_selection only for an item that is not of type
\* maya.session.geometries and a step name containing 'TEXTURE' or 'SHADING';
\* for any other step it leaves the shading-group membership as it was.
C13_BakesOnlyForTextureShading ==
    [][ GeoPublishStep =>
          /\ Called(trace', "bake_facesets_for_selection") =>
                /\ item.type # "maya.session.geometries"
                /\ StepIsTextureOrShading(context.step)
          /\ ~StepIsTextureOrShading(context.step) => membership' = membership ]_vars

\* the method ended in bake_facesets_for_selection, with an exception
BakeRaised(tr, out) ==
    /\ tr # << >>
    /\ tr[Len(tr)] = "bake_facesets_for_selection"
    /\ out.kind = "raise"

\* C14 (as claimed): called with mesh shapes under the selection,
\* bake_facesets_for_selection turns their object-level assignment into a
\* per-face one and returns; called with none, it returns and changes nothing.
C14_BakeConvertsEveryShape ==
    [][ GeoPublishStep /\ Called(trace', "bake_facesets_for_selection") =>
          /\ ~BakeRaised(trace', outcome')
          /\ IF SelectedMeshShapes({ item.object }, geometry) # {}
             THEN membership = ObjectLevel => membership' = PerFace
             ELSE membership' = membership ]_vars

====
